---- MODULE Spec2Model ----
(***************************************************************************)
(* Clipboard Concierge: the rule-based intent classifier, the content      *)
(* signature function, the behaviour store with its pattern miner          *)
(* (PersonalizedConcierge) and the poll loop that classifies clipboard     *)
(* records and persists suggestions (ClipboardConcierge), and the dedup    *)
(* gate of the acquisition side (ClipboardWatcher).                        *)
(*                                                                         *)
(* A clipboard content is a record [lead, words]: the string               *)
(*   (lead ? " " : "") + " ".join(words)                                   *)
(* so that the empty string is [FALSE, << >>] and a whitespace-only string *)
(* is [TRUE, << >>].  Regular expressions of the source are modelled by    *)
(* the set of vocabulary words they match (or by adjacency of two words).  *)
(* Confidences are tenths: 0.4 is 4 (every sum the source forms is exact   *)
(* in tenths, thresholds included).                                        *)
(***************************************************************************)
EXTENDS Integers, Sequences, FiniteSets, TLC

(***************************************************************************)
(* Vocabulary and text helpers                                             *)
(***************************************************************************)

\* str.lower() on a word of the vocabulary
Lower(w) ==
  CASE w = "URGENT"    -> "urgent"
    [] w = "Traceback" -> "traceback"
    [] w = "RUN.PY"    -> "run.py"
    [] w = "Empty"     -> "empty"
    [] w = "Buy"       -> "buy"
    [] w = "C:\\tmp\\a.txt" -> "c:\\tmp\\a.txt"
    [] OTHER           -> w

Content(lead, words) == [lead |-> lead, words |-> words]

EmptyContent == Content(FALSE, << >>)

\* content.split()
Split(c) == c.words

\* `not content`: the empty string
IsEmptyStr(c) == c.lead = FALSE /\ c.words = << >>

\* len(content.strip()) == 0
IsBlank(c) == c.words = << >>

AnyWord(c, S) == \E i \in 1..Len(c.words) : c.words[i] \in S

AnyLower(c, S) == \E i \in 1..Len(c.words) : Lower(c.words[i]) \in S

\* two adjacent words, lower-cased, separated by one blank
Adjacent(c, A, B) ==
  \E i \in 1..(Len(c.words) - 1) :
     Lower(c.words[i]) \in A /\ Lower(c.words[i + 1]) \in B

RECURSIVE Join(_, _)
\* sep.join(ws)
Join(ws, sep) ==
  IF ws = << >> THEN ""
  ELSE IF Len(ws) = 1 THEN ws[1]
  ELSE ws[1] \o sep \o Join(Tail(ws), sep)

Min_NoCap(a, b) == a

Min(a, b) == IF a < b THEN a ELSE b

(***************************************************************************)
(* Content Signature Function (PersonalizedConcierge._create_signature)    *)
(***************************************************************************)

\* re.search(r'\.py\b', content): case-sensitive
PyWords == {"run.py"}

\* 'import' in content_lower or 'def ' in content_lower
HasImportOrDef(c) ==
  \/ AnyLower(c, {"import"})
  \/ \E i \in 1..(Len(c.words) - 1) : Lower(c.words[i]) = "def"

\* re.search(r'python\s+\w+\.py', content_lower)
IsPythonCommand(c) == Adjacent(c, {"python"}, {"run.py"})

\* re.search(r'\.json\b', content)
JsonWords == {"cfg.json"}

\* re.search(r'pip install', content_lower)
IsPipInstall(c) == Adjacent(c, {"pip"}, {"install"})

\* re.search(r'(error|exception|traceback)', content_lower)
SigErrorWords == {"error", "traceback", "exception"}

\* re.search(r'[A-Z]:\\', content)
WinPathWords == {"C:\\tmp\\a.txt"}

\* re.search(r'https?://', content)
UrlWords == {"http://x.io"}

create_signature_ErrorFirst(c) ==
  IF IsEmptyStr(c) THEN "empty"
  ELSE IF AnyWord(c, PyWords)
       THEN (IF HasImportOrDef(c) THEN "python_code" ELSE "python_filename")
  ELSE IF IsPythonCommand(c) THEN "python_command"
  ELSE IF AnyWord(c, JsonWords) THEN "json_file"
  ELSE IF AnyLower(c, SigErrorWords) THEN "error_message"
  ELSE IF IsPipInstall(c) THEN "pip_install"
  ELSE IF AnyWord(c, WinPathWords) THEN "file_path"
  ELSE IF AnyWord(c, UrlWords) THEN "url"
  ELSE Join(SubSeq(Split(c), 1, Min(3, Len(Split(c)))), "_")

create_signature(c) ==
  IF IsEmptyStr(c) THEN "empty"
  ELSE IF AnyWord(c, PyWords)
       THEN (IF HasImportOrDef(c) THEN "python_code" ELSE "python_filename")
  ELSE IF IsPythonCommand(c) THEN "python_command"
  ELSE IF AnyWord(c, JsonWords) THEN "json_file"
  ELSE IF IsPipInstall(c) THEN "pip_install"
  ELSE IF AnyLower(c, SigErrorWords) THEN "error_message"
  ELSE IF AnyWord(c, WinPathWords) THEN "file_path"
  ELSE IF AnyWord(c, UrlWords) THEN "url"
  ELSE Join(SubSeq(Split(c), 1, Min(3, Len(Split(c)))), "_")

(***************************************************************************)
(* Intent Classifier (IntentClassifier)                                    *)
(***************************************************************************)

MeetingWords == {"meeting", "call"}
TimeWords == {"3pm"}
DateRelativeWords == {"tomorrow"}
DateAbsoluteWords == {"12/25/2025"}
TodoWords == {"todo"}
PriorityWords == {"urgent"}
ActionVerbs == {"buy", "call", "email", "send", "finish", "complete", "start"}
ErrorKeywordWords == {"error"}
StackTraceWords == {"traceback"}
LanguageWords == {"python"}
QuestionWords == {"what", "why?"}
DefinitionWords == {"define"}
QuestionMarkWords == {"why?", "ok?"}
EmailWords == {"a@b.io"}
PhoneWords == {"555-123-4567"}
UnixPathWords == {"/etc/hosts", "12/25/2025", "http://x.io"}

NoScore == [confidence |-> 0, actions |-> << >>]

check_calendar_intent(c) ==
  LET score == (IF AnyLower(c, MeetingWords) THEN 4 ELSE 0)
             + (IF AnyLower(c, TimeWords) THEN 3 ELSE 0)
             + (IF AnyLower(c, DateRelativeWords) THEN 3
                ELSE IF AnyLower(c, DateAbsoluteWords) THEN 3 ELSE 0)
  IN IF score < 4 THEN NoScore
     ELSE [confidence |-> Min(score, 10),
           actions |-> <<"create_calendar_event", "set_reminder">>]

check_reminder_intent(c) ==
  LET score == (IF AnyLower(c, TodoWords) THEN 5 ELSE 0)
             + (IF AnyLower(c, PriorityWords) THEN 2 ELSE 0)
             + (IF Len(Split(c)) < 10 /\ Lower(Split(c)[1]) \in ActionVerbs
                THEN 3 ELSE 0)
  IN IF score < 5 THEN NoScore
     ELSE [confidence |-> Min(score, 10),
           actions |-> <<"create_reminder", "add_to_todo_list">>]

check_error_intent_StrictFloor(c) ==
  LET score == (IF AnyLower(c, ErrorKeywordWords) THEN 3 ELSE 0)
             + (IF AnyLower(c, StackTraceWords) THEN 5 ELSE 0)
             + (IF AnyLower(c, LanguageWords) THEN 2 ELSE 0)
  IN IF score <= 5 THEN NoScore
     ELSE [confidence |-> Min(score, 10),
           actions |-> <<"search_stackoverflow", "search_google", "search_github">>]

check_error_intent(c) ==
  LET score == (IF AnyLower(c, ErrorKeywordWords) THEN 3 ELSE 0)
             + (IF AnyLower(c, StackTraceWords) THEN 5 ELSE 0)
             + (IF AnyLower(c, LanguageWords) THEN 2 ELSE 0)
  IN IF score < 5 THEN NoScore
     ELSE [confidence |-> Min(score, 10),
           actions |-> <<"search_stackoverflow", "search_google", "search_github">>]

check_search_intent(c) ==
  LET score == (IF AnyLower(c, QuestionWords) THEN 4 ELSE 0)
             + (IF AnyLower(c, DefinitionWords) THEN 5 ELSE 0)
             + (IF Split(c)[Len(Split(c))] \in QuestionMarkWords THEN 3 ELSE 0)
  IN IF score < 4 THEN NoScore
     ELSE [confidence |-> Min(score, 10),
           actions |-> <<"search_google", "search_wikipedia">>]

check_contact_intent_Static(c) ==
  LET email == AnyWord(c, EmailWords)
      phone == AnyWord(c, PhoneWords)
      score == (IF email THEN 6 ELSE 0) + (IF phone THEN 6 ELSE 0)
  IN IF score < 6 THEN NoScore
     ELSE [confidence |-> Min(score, 10),
           actions |-> <<"save_contact", "send_email", "call_phone">>]

check_contact_intent(c) ==
  LET email == AnyWord(c, EmailWords)
      phone == AnyWord(c, PhoneWords)
      score == (IF email THEN 6 ELSE 0) + (IF phone THEN 6 ELSE 0)
  IN IF score < 6 THEN NoScore
     ELSE [confidence |-> Min(score, 10),
           actions |-> <<"save_contact">>
                       \o (IF email THEN <<"send_email">> ELSE << >>)
                       \o (IF phone THEN <<"call_phone">> ELSE << >>)]

check_file_intent(c) ==
  LET score == (IF AnyWord(c, WinPathWords) THEN 7 ELSE 0)
             + (IF AnyWord(c, UnixPathWords) THEN 7 ELSE 0)
  IN IF score < 7 THEN NoScore
     ELSE [confidence |-> Min(score, 10),
           actions |-> <<"open_file", "open_file_location">>]

no_action_response ==
  [intent |-> "none", confidence |-> 0, suggested_actions |-> << >>]

url_response ==
  [intent |-> "open_url", confidence |-> 10,
   suggested_actions |-> <<"open_in_browser">>]

file_response ==
  [intent |-> "file", confidence |-> 10,
   suggested_actions |-> <<"open_file", "show_in_folder">>]

image_response ==
  [intent |-> "image", confidence |-> 7,
   suggested_actions |-> <<"extract_text", "search_image">>]

\* the six categories in the insertion order of the scores dict
Categories == <<"calendar", "reminder", "error", "search", "contact", "file">>

Scores(c) ==
  [k \in 1..6 |->
     CASE k = 1 -> check_calendar_intent(c)
       [] k = 2 -> check_reminder_intent(c)
       [] k = 3 -> check_error_intent(c)
       [] k = 4 -> check_search_intent(c)
       [] k = 5 -> check_contact_intent(c)
       [] k = 6 -> check_file_intent(c)]

BestIndex_Last(scores) ==
  CHOOSE k \in 1..6 :
     /\ \A j \in 1..6 : scores[j].confidence <= scores[k].confidence
     /\ \A j \in (k + 1)..6 : scores[j].confidence < scores[k].confidence

\* max(scores.items(), key=confidence): the first maximal item
BestIndex(scores) ==
  CHOOSE k \in 1..6 :
     /\ \A j \in 1..6 : scores[j].confidence <= scores[k].confidence
     /\ \A j \in 1..(k - 1) : scores[j].confidence < scores[k].confidence

classify_NoBypass(c, content_type) ==
  IF IsEmptyStr(c) \/ IsBlank(c) THEN no_action_response
  ELSE LET scores == Scores(c)
           best == BestIndex(scores)
       IN IF scores[best].confidence < 3 THEN no_action_response
          ELSE [intent |-> Categories[best],
                confidence |-> scores[best].confidence,
                suggested_actions |-> scores[best].actions]

classify_TypeFirst(c, content_type) ==
  IF content_type = "url" THEN url_response
  ELSE IF content_type = "file" THEN file_response
  ELSE IF content_type = "image" THEN image_response
  ELSE IF IsEmptyStr(c) \/ IsBlank(c) THEN no_action_response
  ELSE LET scores == Scores(c)
           best == BestIndex(scores)
       IN IF scores[best].confidence < 3 THEN no_action_response
          ELSE [intent |-> Categories[best],
                confidence |-> scores[best].confidence,
                suggested_actions |-> scores[best].actions]

classify(c, content_type) ==
  IF IsEmptyStr(c) \/ IsBlank(c) THEN no_action_response
  ELSE IF content_type = "url" THEN url_response
  ELSE IF content_type = "file" THEN file_response
  ELSE IF content_type = "image" THEN image_response
  ELSE LET scores == Scores(c)
           best == BestIndex(scores)
       IN IF scores[best].confidence < 3 THEN no_action_response
          ELSE [intent |-> Categories[best],
                confidence |-> scores[best].confidence,
                suggested_actions |-> scores[best].actions]

(***************************************************************************)
(* State                                                                   *)
(***************************************************************************)

VARIABLES
  history,            \* the content-history file: a JSON array of records
  history_state,      \* that file is "ok", "missing" or "invalid" JSON
  \* ---- ClipboardConcierge ----
  auto_execute,       \* self.auto_execute
  processed_ids,      \* self.processed_ids
  metadata,           \* the suggestion log file: [valid, entries]
  pc,                 \* position of the concierge process
  clipboard_entries,  \* the array loaded at the current poll cycle
  idx,                \* position of the for loop in clipboard_entries
  pending,            \* the list _save_suggestion is about to write
  \* observers of the ClipboardConcierge run
  invocations,        \* id -> process_clipboard_entry calls, this lifetime
  dispatches,         \* execute_action calls of this lifetime, in order
  logLenAtCall,       \* entries in the log when the current call began
  everSaved,          \* every Suggestion whose write completed
  stoppedAt           \* where the process was when it last stopped

cvars == <<auto_execute, processed_ids, metadata, pc, clipboard_entries, idx,
           pending, invocations, dispatches, logLenAtCall, everSaved, stoppedAt>>

(***************************************************************************)
(* Bounds and inputs                                                       *)
(***************************************************************************)

\* longest content-history file beside the ClipboardConcierge
MaxHistory == 3

\* longest content-history file beside the PersonalizedConcierge
PMaxHistory == 2

RecMeeting ==
  [id |-> "a", content_type |-> "text",
   content_preview |-> Content(FALSE, <<"meeting", "tomorrow", "3pm">>)]

RecThanks ==
  [id |-> "b", content_type |-> "text",
   content_preview |-> Content(FALSE, <<"ok", "thanks">>)]

\* the same id as RecMeeting, in another record
RecUrl ==
  [id |-> "a", content_type |-> "url",
   content_preview |-> Content(FALSE, <<"http://x.io">>)]

RecError ==
  [id |-> "c", content_type |-> "text",
   content_preview |-> Content(FALSE, <<"error", "Traceback">>)]

\* a record whose id is missing or empty: entry.get('id') is None or '',
\* both false in `if entry_id and ...`
RecNoId ==
  [id |-> "", content_type |-> "text",
   content_preview |-> Content(FALSE, <<"meeting", "tomorrow", "3pm">>)]

Records == {RecMeeting, RecThanks, RecUrl, RecError, RecNoId}

Ids == {r.id : r \in Records}

(***************************************************************************)
(* ClipboardConcierge                                                      *)
(***************************************************************************)

\* json.load of the suggestion log where the source tolerates a missing or
\* undecodable file
LogEntries(m) == IF m.valid THEN m.entries ELSE << >>

\* _load_processed_ids, had it not read the log
load_processed_ids_Empty(m) == {}

\* ClipboardConcierge._load_processed_ids
load_processed_ids(m) ==
  {LogEntries(m)[i].clipboard_id : i \in 1..Len(LogEntries(m))} \ {""}

\* the Suggestion object built by _save_suggestion
Suggestion_AlwaysSuggested(entry, classification, auto) ==
  [clipboard_id |-> entry.id,
   intent |-> classification.intent,
   confidence |-> classification.confidence,
   suggested_actions |-> classification.suggested_actions,
   action_taken |-> "suggested"]

Suggestion(entry, classification, auto) ==
  [clipboard_id |-> entry.id,
   intent |-> classification.intent,
   confidence |-> classification.confidence,
   suggested_actions |-> classification.suggested_actions,
   action_taken |-> IF auto THEN "auto_executed" ELSE "suggested"]

\* _save_suggestion: the list that is written back
SavedMetadata_Overwrite(m, suggestion) == <<suggestion>>

SavedMetadata(m, suggestion) == Append(LogEntries(m), suggestion)

\* monitor / analyze_once: `entry_id and entry_id not in self.processed_ids`
IsNew_NoEmptyCheck(entry_id, ids) == entry_id \notin ids

IsNew_NoSeenCheck(entry_id, ids) == entry_id # ""

IsNew(entry_id, ids) == entry_id # "" /\ entry_id \notin ids

\* process_clipboard_entry: the execute_action calls of the auto-execute branch
AutoExecuteDispatch_Retry(entry, actions, success) ==
  IF success THEN <<[id |-> entry.id, action |-> actions[1], ok |-> TRUE]>>
  ELSE <<[id |-> entry.id, action |-> actions[1], ok |-> FALSE],
         [id |-> entry.id, action |-> actions[1], ok |-> FALSE]>>

AutoExecuteDispatch(entry, actions, success) ==
  <<[id |-> entry.id, action |-> actions[1], ok |-> success]>>

CurEntry == clipboard_entries[idx]

CurClass == classify(CurEntry.content_preview, CurEntry.content_type)

Running == pc \notin {"interrupted", "killed"}

InitC ==
  /\ auto_execute \in BOOLEAN
  /\ metadata = [valid |-> TRUE, entries |-> << >>]
  /\ processed_ids = {}
  /\ pc = "poll"
  /\ clipboard_entries = << >>
  /\ idx = 1
  /\ pending = << >>
  /\ invocations = [i \in Ids |-> 0]
  /\ dispatches = << >>
  /\ logLenAtCall = 0
  /\ everSaved = {}
  /\ stoppedAt = "running"

\* json.load of the content-history file in the poll loop, with
\* `except (json.JSONDecodeError, IOError): clipboard_entries = []`
LoadHistory_Stale(entries, state) == entries

LoadHistory(entries, state) == IF state = "ok" THEN entries ELSE << >>

\* the acquisition collaborator appends a record to the history file
HistoryAppend(max) ==
  /\ history_state = "ok"
  /\ Len(history) < max
  /\ \E r \in Records : history' = Append(history, r)
  /\ UNCHANGED history_state

\* the history file is away or half-written (open(..., 'w') has truncated it
\* and json.dump has not finished) when the loop reads it, and is whole
\* again afterwards
HistoryDisturb ==
  /\ history_state' \in {"ok", "missing", "invalid"} \ {history_state}
  /\ (history_state # "ok") => (history_state' = "ok")
  /\ UNCHANGED history

\* monitor, had it kept the first non-empty array it loaded
MonitorLoad_Once ==
  /\ pc = "poll"
  /\ clipboard_entries' = IF clipboard_entries = << >>
                          THEN LoadHistory(history, history_state)
                          ELSE clipboard_entries
  /\ idx' = 1
  /\ pc' = "for"
  /\ UNCHANGED <<history, history_state, auto_execute, processed_ids, metadata, pending,
                 invocations, dispatches, logLenAtCall, everSaved,
                 stoppedAt>>

\* monitor: json.load(CLIPBOARD_METADATA) at the top of a poll cycle
MonitorLoad ==
  /\ pc = "poll"
  /\ clipboard_entries' = LoadHistory(history, history_state)
  /\ idx' = 1
  /\ pc' = "for"
  /\ UNCHANGED <<history, history_state, auto_execute, processed_ids, metadata, pending,
                 invocations, dispatches, logLenAtCall, everSaved,
                 stoppedAt>>

\* monitor: the for loop picks the next entry, or the cycle ends in the sleep
MonitorNext ==
  /\ pc = "for"
  /\ IF idx > Len(clipboard_entries)
     THEN /\ pc' = "poll"
          /\ UNCHANGED <<idx, invocations, logLenAtCall>>
     ELSE IF IsNew(CurEntry.id, processed_ids)
     THEN /\ pc' = "process"
          /\ invocations' = [invocations EXCEPT ![CurEntry.id] = @ + 1]
          /\ logLenAtCall' = Len(LogEntries(metadata))
          /\ UNCHANGED idx
     ELSE /\ idx' = idx + 1
          /\ UNCHANGED <<pc, invocations, logLenAtCall>>
  /\ UNCHANGED <<history, history_state, auto_execute, processed_ids, metadata,
                 clipboard_entries, pending, dispatches, everSaved,
                 stoppedAt>>

\* process_clipboard_entry up to the auto-execute branch
ProcessClassify ==
  /\ pc = "process"
  /\ pc' = IF CurClass.intent = "none" THEN "add"
           ELSE IF auto_execute /\ CurClass.suggested_actions # << >>
                THEN "execute"
           ELSE "save"
  /\ UNCHANGED <<history, history_state, auto_execute, processed_ids, metadata,
                 clipboard_entries, idx, pending, invocations, dispatches,
                 logLenAtCall, everSaved,
                 stoppedAt>>

\* execute_action, had its action_map no entry for search_github
action_map_NoGithub ==
  {"create_calendar_event", "set_reminder", "create_reminder",
   "add_to_todo_list", "search_stackoverflow", "search_google",
   "search_wikipedia", "search_image", "open_in_browser", "open_file",
   "show_in_folder", "open_file_location", "save_contact", "send_email",
   "call_phone", "extract_text"}

\* ActionExecutor.execute_action: the keys of action_map; any other action
\* prints "Unknown action" and returns False
action_map ==
  {"create_calendar_event", "set_reminder", "create_reminder",
   "add_to_todo_list", "search_stackoverflow", "search_google",
   "search_wikipedia", "search_github", "search_image", "open_in_browser",
   "open_file", "show_in_folder", "open_file_location", "save_contact",
   "send_email", "call_phone", "extract_text"}

\* process_clipboard_entry: self.executor.execute_action(best_action, ...),
\* which returns True or False (unknown action, handler failure)
ProcessExecute ==
  /\ pc = "execute"
  /\ \E success \in BOOLEAN :
       dispatches' = dispatches \o
          AutoExecuteDispatch(CurEntry, CurClass.suggested_actions, success)
  /\ pc' = "save"
  /\ UNCHANGED <<history, history_state, auto_execute, processed_ids, metadata,
                 clipboard_entries, idx, pending, invocations, logLenAtCall,
                 everSaved,
                 stoppedAt>>

\* _save_suggestion: read the log, append, open(..., 'w') (which truncates)
SaveOpen ==
  /\ pc = "save"
  /\ pending' = SavedMetadata(metadata,
                              Suggestion(CurEntry, CurClass, auto_execute))
  /\ metadata' = [valid |-> FALSE, entries |-> << >>]
  /\ pc' = "write"
  /\ UNCHANGED <<history, history_state, auto_execute, processed_ids, clipboard_entries, idx,
                 invocations, dispatches, logLenAtCall, everSaved,
                 stoppedAt>>

\* _save_suggestion: json.dump and close
SaveWrite ==
  /\ pc = "write"
  /\ metadata' = [valid |-> TRUE, entries |-> pending]
  /\ everSaved' = everSaved \cup {pending[Len(pending)]}
  /\ pending' = << >>
  /\ pc' = "add"
  /\ UNCHANGED <<history, history_state, auto_execute, processed_ids, clipboard_entries, idx,
                 invocations, dispatches, logLenAtCall, stoppedAt>>

\* monitor: self.processed_ids.add(entry_id)
MonitorAdd ==
  /\ pc = "add"
  /\ processed_ids' = processed_ids \cup {CurEntry.id}
  /\ idx' = idx + 1
  /\ pc' = "for"
  /\ UNCHANGED <<history, history_state, auto_execute, metadata, clipboard_entries, pending,
                 invocations, dispatches, logLenAtCall, everSaved,
                 stoppedAt>>

\* KeyboardInterrupt: raised wherever the main thread is, caught by the
\* except clause around the while loop
Interrupt ==
  /\ Running
  /\ pc' = "interrupted"
  /\ stoppedAt' = pc
  /\ UNCHANGED <<history, history_state, auto_execute, processed_ids, metadata,
                 clipboard_entries, idx, pending, invocations, dispatches,
                 logLenAtCall, everSaved>>

\* the process is terminated (kill, power loss) wherever it is
Kill ==
  /\ Running
  /\ pc' = "killed"
  /\ stoppedAt' = pc
  /\ UNCHANGED <<history, history_state, auto_execute, processed_ids, metadata,
                 clipboard_entries, idx, pending, invocations, dispatches,
                 logLenAtCall, everSaved>>

\* main: a new process, ClipboardConcierge(auto_execute=args.auto_execute)
\* then monitor
Restart ==
  /\ ~Running
  /\ auto_execute' \in BOOLEAN
  /\ processed_ids' = load_processed_ids(metadata)
  /\ pc' = "poll"
  /\ clipboard_entries' = << >>
  /\ idx' = 1
  /\ pending' = << >>
  /\ invocations' = [i \in Ids |-> 0]
  /\ dispatches' = << >>
  /\ logLenAtCall' = 0
  /\ stoppedAt' = "running"
  /\ UNCHANGED <<history, history_state, metadata, everSaved>>

(***************************************************************************)
(* ClipboardWatcher: the dedup gate                                        *)
(***************************************************************************)

VARIABLES
  recent_captures,   \* self.recent_captures: content hash -> time recorded
  clock,             \* datetime.now(), in seconds
  checks             \* observer: the _is_duplicate calls made, oldest first

wvars == <<recent_captures, clock, checks>>

\* DEDUP_WINDOW = 5.0 seconds
DEDUP_WINDOW == 5

\* the run of the watcher is followed up to this time
MaxClock == 12

\* and for this many _is_duplicate calls
MaxChecks == 4

\* content hashes of the clipboard contents checked
Hashes == {"h1", "h2"}

\* _is_duplicate: `time_since < DEDUP_WINDOW`
WithinWindow_Inclusive(t, last_captured) == t - last_captured <= DEDUP_WINDOW

WithinWindow(t, last_captured) == t - last_captured < DEDUP_WINDOW

\* _cleanup_old_captures at time t: entries with ts <= t - DEDUP_WINDOW go
cleanup_old_captures_Keep(captures, t) == captures

cleanup_old_captures(captures, t) ==
  LET cutoff == t - DEDUP_WINDOW
      kept == {h \in DOMAIN captures : ~(captures[h] <= cutoff)}
  IN [h \in kept |-> captures[h]]

InitW ==
  /\ recent_captures = [h \in {} |-> 0]
  /\ clock = 0
  /\ checks = << >>

\* time passes between two polls of the clipboard
Tick ==
  /\ clock < MaxClock
  /\ clock' = clock + 1
  /\ UNCHANGED <<recent_captures, checks>>

\* _is_duplicate, had it marked the content as seen on every check
is_duplicate_Refresh(content_hash) ==
  /\ Len(checks) < MaxChecks
  /\ LET t == clock
     IN IF /\ content_hash \in DOMAIN recent_captures
           /\ WithinWindow(t, recent_captures[content_hash])
        THEN /\ checks' = Append(checks, [hash |-> content_hash, at |-> t,
                                          result |-> TRUE])
             /\ recent_captures' =
                  [recent_captures EXCEPT ![content_hash] = t]
             /\ UNCHANGED clock
        ELSE \E d \in 0..1 :
               /\ clock + d <= MaxClock
               /\ LET swept == cleanup_old_captures(recent_captures, t + d)
                  IN recent_captures' =
                       [h \in DOMAIN swept \cup {content_hash} |->
                          IF h = content_hash THEN t ELSE swept[h]]
               /\ clock' = clock + d
               /\ checks' = Append(checks, [hash |-> content_hash, at |-> t,
                                            result |-> FALSE])

\* ClipboardWatcher._is_duplicate(content_hash); _cleanup_old_captures reads
\* the clock again, d seconds after the call began
is_duplicate(content_hash) ==
  /\ Len(checks) < MaxChecks
  /\ LET t == clock
     IN IF /\ content_hash \in DOMAIN recent_captures
           /\ WithinWindow(t, recent_captures[content_hash])
        THEN /\ checks' = Append(checks, [hash |-> content_hash, at |-> t,
                                          result |-> TRUE])
             /\ UNCHANGED <<recent_captures, clock>>
        ELSE \E d \in 0..1 :
               /\ clock + d <= MaxClock
               /\ LET swept == cleanup_old_captures(recent_captures, t + d)
                  IN recent_captures' =
                       [h \in DOMAIN swept \cup {content_hash} |->
                          IF h = content_hash THEN t ELSE swept[h]]
               /\ clock' = clock + d
               /\ checks' = Append(checks, [hash |-> content_hash, at |-> t,
                                            result |-> FALSE])

(***************************************************************************)
(* IntentClassifier.classify and _create_signature applied to one content  *)
(***************************************************************************)

VARIABLES
  text,      \* the content passed to classify or to _create_signature
  ctype,     \* the content_type passed to classify
  result,    \* what classify returned, or NotCalled
  sig_out    \* what _create_signature returned, as <<string>>, or << >>

kvars == <<text, ctype, result, sig_out>>

NotCalled == [intent |-> "not called"]

InitK ==
  /\ text = EmptyContent
  /\ ctype = "text"
  /\ result = NotCalled
  /\ sig_out = << >>

(***************************************************************************)
(* PersonalizedConcierge: behaviour store, pattern miner, poll loop        *)
(***************************************************************************)

VARIABLES
  behavior_events,          \* self.behavior_data["clipboard_events"]
  behavior_file,            \* the events array of the behaviour log file
  patterns,                 \* self.patterns: [workflows, context_hints]
  processed_clipboard_ids,  \* self.processed_clipboard_ids
  ppc,                      \* position of the personalized poll loop
  pentries,                 \* the array loaded at the current poll cycle
  pidx,                     \* position of the for loop in pentries
  now,                      \* datetime.now(), a logical clock
  related_actions,          \* the related_actions list of the last
                            \* _get_personalized_suggestion call
  suggestions,              \* the list that call returned
  emitted,                  \* the suggestion lines the last
                            \* process_clipboard_entry call printed
  \* observers of the PersonalizedConcierge run
  tracked,                  \* every event ever appended, oldest first
  lastRebuilt,              \* the last track_action call rebuilt the patterns
  prevRebuilt,              \* the track_action call before it did
  pcalls,                   \* process_clipboard_entry calls
  pappended,                \* events track_action appended in this run
  pclassified,              \* those whose classification was not none
  pinvocations              \* id -> process_clipboard_entry calls

pvars == <<behavior_events, behavior_file, patterns, processed_clipboard_ids,
           ppc, pentries, pidx, now, related_actions, suggestions, emitted,
           tracked,
           lastRebuilt, prevRebuilt, pcalls, pappended, pclassified,
           pinvocations>>

vars == <<history, history_state, cvars, pvars, wvars, kvars>>

\* `if len(events) > 1000` and `[-1000:]`
MAX_EVENTS == 1000

\* `len(events) % 10 == 0`
REBUILD_EVERY == 10

\* how far below a threshold the behaviour log of an earlier run may end
InitSlack == 2

\* longest behaviour log written by another producer
MaxLegacy == 8

\* event.get("content_preview", "")
EventPreview(e) ==
  IF "content_preview" \in DOMAIN e THEN e.content_preview ELSE EmptyContent

\* re.findall(r'[A-Z]:\\[^<>:"|?*\n]+', content): the matches; one at most in
\* this vocabulary, from the path word to the end of the line
PathsIn(c) ==
  IF AnyWord(c, WinPathWords)
  THEN LET i == CHOOSE k \in 1..Len(c.words) :
                  /\ c.words[k] \in WinPathWords
                  /\ \A j \in 1..(k - 1) : c.words[j] \notin WinPathWords
       IN <<Join(SubSeq(c.words, i, Len(c.words)), " ")>>
  ELSE << >>

\* str(Path(path).parent)
ParentDir(path) == "parent of " \o path

RECURSIVE OrderByFirst(_, _)
\* the keys of a dict in insertion order, first(k) the step that inserted k
OrderByFirst(keys, first) ==
  IF keys = {} THEN << >>
  ELSE LET k == CHOOSE x \in keys : \A y \in keys : first[x] <= first[y]
       IN <<k>> \o OrderByFirst(keys \ {k}, first)

\* PersonalizedConcierge._build_patterns
build_patterns(events) ==
  LET n == Len(events)
      sig == [i \in 1..n |-> create_signature(EventPreview(events[i]))]
      pairAt == [i \in 1..(n - 1) |-> <<sig[i], sig[i + 1]>>]
      keys == {pairAt[i] : i \in 1..(n - 1)}
      at == [k \in keys |-> {i \in 1..(n - 1) : pairAt[i] = k}]
      first == [k \in keys |-> CHOOSE i \in at[k] : \A j \in at[k] : i <= j]
      ordered == OrderByFirst(keys, first)
      withPath == {i \in 1..n : PathsIn(EventPreview(events[i])) # << >>}
      dirOf == [i \in withPath |-> ParentDir(PathsIn(EventPreview(events[i]))[1])]
      dirs == {dirOf[i] : i \in withPath}
  IN [workflows |->
        [j \in 1..Len(ordered) |->
           [key |-> ordered[j], count |-> Cardinality(at[ordered[j]])]],
      context_hints |->
        [d \in dirs |-> Cardinality({i \in withPath : dirOf[i] = d})]]

RECURSIVE InsertDesc(_, _)
\* insert x after every element whose count is not smaller
InsertDesc(sorted, x) ==
  IF sorted = << >> THEN <<x>>
  ELSE IF sorted[1].count >= x.count
       THEN <<sorted[1]>> \o InsertDesc(Tail(sorted), x)
  ELSE <<x>> \o sorted

RECURSIVE SortByCountDesc(_)
\* list.sort(key=count, reverse=True): stable
SortByCountDesc(xs) ==
  IF xs = << >> THEN << >>
  ELSE InsertDesc(SortByCountDesc(SubSeq(xs, 1, Len(xs) - 1)), xs[Len(xs)])

RelatedActions_Once(workflows, signature) ==
  LET hit(w) == w.key[1] = signature /\ w.count >= 1
      kept == SelectSeq(workflows, hit)
  IN SortByCountDesc([j \in 1..Len(kept) |->
                        [follow |-> kept[j].key[2], count |-> kept[j].count]])

\* _get_personalized_suggestion: the related_actions list
RelatedActions(workflows, signature) ==
  LET hit(w) == w.key[1] = signature /\ w.count >= 2
      kept == SelectSeq(workflows, hit)
  IN SortByCountDesc([j \in 1..Len(kept) |->
                        [follow |-> kept[j].key[2], count |-> kept[j].count]])

\* _get_personalized_suggestion: the list it returns
get_personalized_suggestion(entry, pats) ==
  LET content == entry.content_preview
      signature == create_signature(content)
      paths == PathsIn(content)
  IN (IF signature = "python_filename" THEN <<"Run: python <name>.py">>
      ELSE << >>)
     \o (IF signature = "pip_install"
         THEN <<"Test: python -c 'import <package>'">> ELSE << >>)
     \o (IF signature = "error_message"
         THEN <<"Check: Did you have this error before?",
                "Search: Your error + 'llama-cpp-python'">>
         ELSE << >>)
     \o (IF paths # << >> /\ ParentDir(paths[1]) \in DOMAIN pats.context_hints
         THEN <<"Working in: " \o ParentDir(paths[1])>> ELSE << >>)

\* process_clipboard_entry: action_labels.get(action, action)
ActionLabel(action) ==
  CASE action = "create_calendar_event" -> "Add to Calendar"
    [] action = "set_reminder" -> "Set Reminder"
    [] action = "search_stackoverflow" -> "Search Stack Overflow"
    [] action = "search_google" -> "Google Search"
    [] action = "open_file" -> "Open File"
    [] OTHER -> action

\* process_clipboard_entry: the [P] lines, then the [*] lines of
\* base_actions[:3]
EmittedLines_RulesFirst(personalized, base_actions) ==
  [i \in 1..Min(3, Len(base_actions)) |->
     [provenance |-> "rule", text |-> ActionLabel(base_actions[i])]]
  \o [i \in 1..Len(personalized) |->
        [provenance |-> "learned", text |-> personalized[i]]]

EmittedLines(personalized, base_actions) ==
  [i \in 1..Len(personalized) |->
     [provenance |-> "learned", text |-> personalized[i]]]
  \o [i \in 1..Min(3, Len(base_actions)) |->
        [provenance |-> "rule", text |-> ActionLabel(base_actions[i])]]

\* track_action: the event it appends
NewEvent(content, action_taken, t) ==
  [timestamp |-> t,
   clipboard_content |-> content,
   signature |-> create_signature(content),
   action |-> action_taken]

Retained_KeepOldest(events) ==
  IF Len(events) > MAX_EVENTS THEN SubSeq(events, 1, MAX_EVENTS) ELSE events

\* track_action: `events[-1000:]` once there are more than 1000
Retained(events) ==
  IF Len(events) > MAX_EVENTS
  THEN SubSeq(events, Len(events) - MAX_EVENTS + 1, Len(events))
  ELSE events

\* track_action: `if len(events) % 10 == 0`
RebuildDue(events) == Len(events) % REBUILD_EVERY = 0

ShouldTrack_Always(classification) == TRUE

\* process_clipboard_entry: `if intent == 'none': return` before track_action
ShouldTrack(classification) == classification.intent # "none"

\* an event as track_action wrote it in an earlier run
EarlierEvent(i) ==
  IF i % 2 = 0
  THEN NewEvent(RecMeeting.content_preview, "classified_as_calendar", i)
  ELSE NewEvent(RecError.content_preview, "classified_as_error", i)

EarlierSizes ==
  {0} \cup ((REBUILD_EVERY - InitSlack)..(REBUILD_EVERY - 1))
      \cup ((MAX_EVENTS - InitSlack)..MAX_EVENTS)

InitPObservers ==
  /\ processed_clipboard_ids = {}
  /\ ppc = "poll"
  /\ pentries = << >>
  /\ pidx = 1
  /\ related_actions = << >>
  /\ suggestions = << >>
  /\ emitted = << >>
  /\ lastRebuilt = FALSE
  /\ prevRebuilt = FALSE
  /\ pcalls = 0
  /\ pappended = 0
  /\ pclassified = 0
  /\ pinvocations = [i \in Ids |-> 0]

\* PersonalizedConcierge.__init__ over the behaviour log of earlier runs
InitP ==
  /\ \E n \in EarlierSizes :
       /\ behavior_events = [i \in 1..n |-> EarlierEvent(i)]
       /\ now = n + 1
  /\ behavior_file = behavior_events
  /\ tracked = behavior_events
  /\ patterns = build_patterns(behavior_events)
  /\ InitPObservers

\* monitor: json.load(CLIPBOARD_METADATA) at the top of a poll cycle
PMonitorLoad ==
  /\ ppc = "poll"
  /\ pentries' = LoadHistory(history, history_state)
  /\ pidx' = 1
  /\ ppc' = "for"
  /\ UNCHANGED <<history, history_state, cvars, wvars, kvars, behavior_events,
                 behavior_file, patterns,
                 processed_clipboard_ids, now, related_actions, suggestions,
                 emitted,
                 tracked, lastRebuilt, prevRebuilt, pcalls, pappended,
                 pclassified, pinvocations>>

\* monitor: the sleep that ends a poll cycle
PMonitorSleep ==
  /\ ppc = "for"
  /\ pidx > Len(pentries)
  /\ ppc' = "poll"
  /\ UNCHANGED <<history, history_state, cvars, wvars, kvars, behavior_events,
                 behavior_file, patterns,
                 processed_clipboard_ids, pentries, pidx, now, related_actions,
                 suggestions, emitted, tracked, lastRebuilt, prevRebuilt,
                 pcalls,
                 pappended, pclassified, pinvocations>>

\* monitor: an entry that is skipped (no id, or already processed)
PMonitorSkip ==
  /\ ppc = "for"
  /\ pidx <= Len(pentries)
  /\ ~IsNew(pentries[pidx].id, processed_clipboard_ids)
  /\ pidx' = pidx + 1
  /\ UNCHANGED <<history, history_state, cvars, wvars, kvars, behavior_events,
                 behavior_file, patterns,
                 processed_clipboard_ids, ppc, pentries, now, related_actions,
                 suggestions, emitted, tracked, lastRebuilt, prevRebuilt,
                 pcalls,
                 pappended, pclassified, pinvocations>>

\* monitor: process_clipboard_entry(entry) and processed_clipboard_ids.add,
\* with track_action, _save_behavior and the periodic _build_patterns
PMonitorProcess ==
  /\ ppc = "for"
  /\ pidx <= Len(pentries)
  /\ IsNew(pentries[pidx].id, processed_clipboard_ids)
  /\ LET entry == pentries[pidx]
         classification == classify(entry.content_preview, entry.content_type)
         event == NewEvent(entry.content_preview,
                           "classified_as_" \o classification.intent, now)
         kept == Retained(Append(behavior_events, event))
     IN /\ pcalls' = pcalls + 1
        /\ pinvocations' = [pinvocations EXCEPT ![entry.id] = @ + 1]
        /\ IF classification.intent = "none"
           THEN /\ emitted' = << >>
                /\ UNCHANGED <<related_actions, suggestions, pclassified>>
           ELSE /\ related_actions' =
                     RelatedActions(patterns.workflows,
                                    create_signature(entry.content_preview))
                /\ suggestions' = get_personalized_suggestion(entry, patterns)
                /\ emitted' =
                     EmittedLines(get_personalized_suggestion(entry, patterns),
                                  classification.suggested_actions)
                /\ pclassified' = pclassified + 1
        /\ IF ShouldTrack(classification)
           THEN /\ behavior_events' = kept
                /\ behavior_file' = kept
                /\ tracked' = Append(tracked, event)
                /\ pappended' = pappended + 1
                /\ now' = now + 1
                /\ prevRebuilt' = lastRebuilt
                /\ lastRebuilt' = RebuildDue(kept)
                /\ patterns' = IF RebuildDue(kept) THEN build_patterns(kept)
                               ELSE patterns
           ELSE UNCHANGED <<behavior_events, behavior_file, tracked, pappended,
                            now, prevRebuilt, lastRebuilt, patterns>>
        /\ processed_clipboard_ids' = processed_clipboard_ids \cup {entry.id}
  /\ pidx' = pidx + 1
  /\ UNCHANGED <<history, history_state, cvars, wvars, kvars, ppc, pentries>>

\* The loop reads the file only at the top of a poll cycle: an append made
\* during a cycle is seen exactly as one made before the next load.
PHistoryAppend ==
  /\ ppc = "poll"
  /\ HistoryAppend(PMaxHistory)
  /\ UNCHANGED <<cvars, pvars, wvars, kvars>>

PHistoryDisturb ==
  /\ ppc = "poll"
  /\ HistoryDisturb
  /\ UNCHANGED <<cvars, pvars, wvars, kvars>>

NextP ==
  \/ PHistoryAppend
  \/ PHistoryDisturb
  \/ PMonitorLoad
  \/ PMonitorSkip
  \/ PMonitorProcess
  \/ PMonitorSleep

\* the PersonalizedConcierge process beside the acquisition collaborator
InitSpecP ==
  /\ history = << >>
  /\ history_state = "ok"
  /\ InitC
  /\ InitW
  /\ InitK
  /\ auto_execute = FALSE
  /\ InitP

SpecP == InitSpecP /\ [][NextP]_vars

(***************************************************************************)
(* The pattern miner and suggest_for over a behaviour log whose events     *)
(* carry content_preview, the field _build_patterns reads                  *)
(***************************************************************************)

PipContent == Content(FALSE, <<"pip", "install", "requests">>)

ErrContent == Content(FALSE, <<"error", "Traceback">>)

LoggedContents == {PipContent, ErrContent}

InitSuggest ==
  /\ \E n \in 0..MaxLegacy :
       \E cs \in [1..n -> LoggedContents] :
          behavior_events = [i \in 1..n |-> [timestamp |-> i,
                                             content_preview |-> cs[i]]]
  /\ now = Len(behavior_events) + 1
  /\ behavior_file = behavior_events
  /\ tracked = behavior_events
  /\ patterns = build_patterns(behavior_events)
  /\ InitPObservers

\* _get_personalized_suggestion(entry) on a clipboard entry
SuggestFor ==
  \E c \in LoggedContents :
     LET entry == [id |-> "a", content_type |-> "text", content_preview |-> c]
     IN /\ related_actions' =
             RelatedActions(patterns.workflows, create_signature(c))
        /\ suggestions' = get_personalized_suggestion(entry, patterns)
        /\ pentries' = <<entry>>
        /\ UNCHANGED <<history, history_state, cvars, wvars, kvars, behavior_events,
                       behavior_file,
                       patterns, processed_clipboard_ids, ppc, pidx, now,
                       emitted, tracked, lastRebuilt, prevRebuilt, pcalls, pappended,
                       pclassified, pinvocations>>

NextSuggest == SuggestFor

InitSpecSuggest ==
  /\ history = << >>
  /\ history_state = "ok"
  /\ InitC
  /\ InitW
  /\ InitK
  /\ auto_execute = FALSE
  /\ InitSuggest

SpecSuggest == InitSpecSuggest /\ [][NextSuggest]_vars

(***************************************************************************)
(* The ClipboardConcierge process beside the acquisition collaborator      *)
(***************************************************************************)

\* The loop reads the file only at the top of a poll cycle: an append made
\* during a cycle is seen exactly as one made before the next load.
CHistoryAppend ==
  /\ pc = "poll"
  /\ HistoryAppend(MaxHistory)
  /\ UNCHANGED <<cvars, pvars, wvars, kvars>>

CHistoryDisturb ==
  /\ pc = "poll"
  /\ HistoryDisturb
  /\ UNCHANGED <<cvars, pvars, wvars, kvars>>

Init ==
  /\ history = << >>
  /\ history_state = "ok"
  /\ InitC
  /\ InitW
  /\ InitK
  /\ behavior_events = << >>
  /\ now = 1
  /\ behavior_file = << >>
  /\ tracked = << >>
  /\ patterns = build_patterns(<< >>)
  /\ InitPObservers

Next ==
  \/ CHistoryAppend
  \/ CHistoryDisturb
  \/ (MonitorLoad /\ UNCHANGED <<pvars, wvars, kvars>>)
  \/ (MonitorNext /\ UNCHANGED <<pvars, wvars, kvars>>)
  \/ (ProcessClassify /\ UNCHANGED <<pvars, wvars, kvars>>)
  \/ (ProcessExecute /\ UNCHANGED <<pvars, wvars, kvars>>)
  \/ (SaveOpen /\ UNCHANGED <<pvars, wvars, kvars>>)
  \/ (SaveWrite /\ UNCHANGED <<pvars, wvars, kvars>>)
  \/ (MonitorAdd /\ UNCHANGED <<pvars, wvars, kvars>>)
  \/ (Interrupt /\ UNCHANGED <<pvars, wvars, kvars>>)
  \/ (Kill /\ UNCHANGED <<pvars, wvars, kvars>>)
  \/ (Restart /\ UNCHANGED <<pvars, wvars, kvars>>)

Spec == Init /\ [][Next]_vars

(***************************************************************************)
(* The poll loop of ClipboardConcierge when it keeps running: the process  *)
(* is not stopped and the history file stays readable.  monitor is one     *)
(* sequential loop whose steps and whose sleep all return, so the step at  *)
(* which the loop stands is eventually taken.                              *)
(***************************************************************************)

\* the history grows to this many records while the loop keeps running
LMaxHistory == 2

\* the watcher appends a record during the sleep of the loop
LHistoryAppend ==
  /\ pc = "poll"
  /\ HistoryAppend(LMaxHistory)
  /\ UNCHANGED <<cvars, pvars, wvars, kvars>>

MonitorStep ==
  /\ \/ MonitorLoad
     \/ MonitorNext
     \/ ProcessClassify
     \/ ProcessExecute
     \/ SaveOpen
     \/ SaveWrite
     \/ MonitorAdd
  /\ UNCHANGED <<pvars, wvars, kvars>>

NextLive == LHistoryAppend \/ MonitorStep

InitSpecLive == Init

SpecLive == InitSpecLive /\ [][NextLive]_vars /\ WF_vars(MonitorStep)

(***************************************************************************)
(* The dedup gate of the watcher under a passing clock                     *)
(***************************************************************************)

IsDuplicateCall ==
  /\ \E h \in Hashes : is_duplicate(h)
  /\ UNCHANGED <<history, history_state, cvars, pvars, kvars>>

ClockTick == Tick /\ UNCHANGED <<history, history_state, cvars, pvars, kvars>>

NextDedup == ClockTick \/ IsDuplicateCall

InitSpecDedup == Init

SpecDedup == InitSpecDedup /\ [][NextDedup]_vars

(***************************************************************************)
(* classify applied to the texts over a vocabulary and to every type       *)
(***************************************************************************)

\* longest text, in words
MaxWords == 2

\* words that match each sub-signal of each category, and one that matches
\* none
KVocabulary ==
  {"meeting", "call", "3pm", "tomorrow", "12/25/2025", "todo", "URGENT",
   "buy", "error", "Traceback", "python", "what", "why?", "ok?", "define",
   "a@b.io", "555-123-4567", "/etc/hosts", "C:\\tmp\\a.txt", "thanks"}

ContentTypes == {"text", "url", "file", "image"}

Texts(n) ==
  {Content(l, ws) : l \in BOOLEAN,
                    ws \in UNION {[1..k -> KVocabulary] : k \in 0..n}}

\* test_examples.py, "Todo with Priority":
\* "URGENT: Finish the presentation for tomorrow's meeting"
TestTexts == {Content(FALSE, <<"URGENT", "finish", "tomorrow", "meeting">>)}

InitClassify ==
  /\ text \in Texts(MaxWords) \cup TestTexts
  /\ ctype \in ContentTypes
  /\ result = NotCalled
  /\ sig_out = << >>

\* self.classifier.classify(content_preview, content_type)
Classify ==
  /\ result = NotCalled
  /\ result' = classify(text, ctype)
  /\ UNCHANGED <<history, history_state, cvars, pvars, wvars, text, ctype,
                 sig_out>>

NextClassify == Classify

InitSpecClassify ==
  /\ history = << >>
  /\ history_state = "ok"
  /\ InitC
  /\ auto_execute = FALSE
  /\ InitW
  /\ behavior_events = << >>
  /\ now = 1
  /\ behavior_file = << >>
  /\ tracked = << >>
  /\ patterns = build_patterns(<< >>)
  /\ InitPObservers
  /\ InitClassify

SpecClassify == InitSpecClassify /\ [][NextClassify]_vars

(***************************************************************************)
(* _create_signature applied to the texts over a vocabulary                *)
(***************************************************************************)

\* longest text given to the signature function, in words
MaxSigWords == 4

\* words for each cue of the signature rules, and one that matches none
SVocabulary ==
  {"run.py", "RUN.PY", "import", "python", "cfg.json", "pip", "install",
   "Traceback", "C:\\tmp\\a.txt", "http://x.io", "Buy"}

SigTexts(n) ==
  {Content(l, ws) : l \in BOOLEAN,
                    ws \in UNION {[1..k -> SVocabulary] : k \in 0..n}}

InitSignature ==
  /\ text \in SigTexts(MaxSigWords)
  /\ ctype = "text"
  /\ result = NotCalled
  /\ sig_out = << >>

\* self._create_signature(content)
CreateSignature ==
  /\ sig_out = << >>
  /\ sig_out' = <<create_signature(text)>>
  /\ UNCHANGED <<history, history_state, cvars, pvars, wvars, text, ctype,
                 result>>

NextSignature == CreateSignature

InitSpecSignature ==
  /\ history = << >>
  /\ history_state = "ok"
  /\ InitC
  /\ auto_execute = FALSE
  /\ InitW
  /\ behavior_events = << >>
  /\ now = 1
  /\ behavior_file = << >>
  /\ tracked = << >>
  /\ patterns = build_patterns(<< >>)
  /\ InitPObservers
  /\ InitSignature

SpecSignature == InitSpecSignature /\ [][NextSignature]_vars

(***************************************************************************)
(* Properties                                                              *)
(***************************************************************************)

\* patterns["workflows"][(s, f)], a defaultdict(int)
WorkflowCount(pats, s, f) ==
  IF \E j \in 1..Len(pats.workflows) : pats.workflows[j].key = <<s, f>>
  THEN LET j == CHOOSE k \in 1..Len(pats.workflows) :
                   pats.workflows[k].key = <<s, f>>
       IN pats.workflows[j].count
  ELSE 0

\* adjacent pairs of the history by the signature each event stores
StoredPairCount(events, s, f) ==
  Cardinality({i \in 1..(Len(events) - 1) :
                 events[i].signature = s /\ events[i + 1].signature = f})

SignaturesSeen ==
  {behavior_events[i].signature : i \in 1..Len(behavior_events)}
  \cup {patterns.workflows[j].key[1] : j \in 1..Len(patterns.workflows)}
  \cup {patterns.workflows[j].key[2] : j \in 1..Len(patterns.workflows)}

\* C1: once track_action has appended an event and rebuilt the patterns, the
\* workflow count of every ordered pair (s, f) is the number of adjacent
\* events of the retained history whose stored signatures are s and f.
C1_CountsMatchStoredSignatures ==
  lastRebuilt =>
    \A s \in SignaturesSeen : \A f \in SignaturesSeen :
       WorkflowCount(patterns, s, f) = StoredPairCount(behavior_events, s, f)

QueriedSignature == create_signature(pentries[1].content_preview)

FollowUpsAtLeastTwice ==
  {f \in {patterns.workflows[j].key[2] : j \in 1..Len(patterns.workflows)} :
     WorkflowCount(patterns, QueriedSignature, f) >= 2}

\* C2: the related-actions list computed for a signature holds exactly the
\* follow-up signatures whose count after that signature is at least 2, each
\* once and with its count, in order of non-increasing count.
C2_RelatedActions ==
  pentries # << >> =>
    /\ {related_actions[k].follow : k \in 1..Len(related_actions)}
         = FollowUpsAtLeastTwice
    /\ Len(related_actions) = Cardinality(FollowUpsAtLeastTwice)
    /\ \A k \in 1..Len(related_actions) :
         related_actions[k].count =
           WorkflowCount(patterns, QueriedSignature, related_actions[k].follow)
    /\ \A k \in 1..(Len(related_actions) - 1) :
         related_actions[k].count >= related_actions[k + 1].count

\* C2 witness: a follow-up counted 3 is ranked before one counted 2 that the
\* pattern map holds first, and a follow-up of another signature is left out.
C2_Witness ==
  /\ pentries # << >>
  /\ Len(related_actions) = 2
  /\ related_actions[1].count = 3
  /\ related_actions[2].count = 2
  /\ \E i, j \in 1..Len(patterns.workflows) :
       /\ i < j
       /\ patterns.workflows[i].key = <<QueriedSignature, related_actions[2].follow>>
       /\ patterns.workflows[j].key = <<QueriedSignature, related_actions[1].follow>>
  /\ \E j \in 1..Len(patterns.workflows) :
       patterns.workflows[j].key[1] # QueriedSignature

\* C3 as claimed: every process_clipboard_entry call of the personalized
\* concierge appends exactly one event, whatever the classification.
C3_EveryCallAppends == pappended = pcalls

\* C3 as amended: the calls whose classification is not none append exactly
\* one event each, and a call classified none appends nothing.
C3_ClassifiedCallsAppend == pappended = pclassified

\* C3 witness: a record classified none and a classified one were processed.
C3_Witness == pclassified >= 1 /\ pcalls > pclassified

\* C4: the store never holds more than the cap, and what it holds is the
\* most recently appended events in their append order.
C4_CapFifo ==
  /\ Len(behavior_events) <= MAX_EVENTS
  /\ Len(behavior_events) = Min(Len(tracked), MAX_EVENTS)
  /\ behavior_events =
       SubSeq(tracked, Len(tracked) - Len(behavior_events) + 1, Len(tracked))
  /\ behavior_file = behavior_events

\* C4 witness: track_action appended to a full store, evicting the oldest.
C4_Witness == pappended >= 1 /\ Len(tracked) > MAX_EVENTS

\* C5: two consecutive appends never both trigger the pattern rebuild.
C5_NoConsecutiveRebuilds == ~(lastRebuilt /\ prevRebuilt)

\* C6: within one process lifetime process_clipboard_entry is invoked at
\* most once per content id.
C6_AtMostOncePerId == \A i \in Ids : invocations[i] <= 1

\* C6 witness: a poll cycle over a history that holds the id "a" in two
\* records has ended and a later cycle is in its for loop.
C6_Witness ==
  /\ invocations["a"] = 1
  /\ "a" \in processed_ids
  /\ pc = "for"
  /\ idx > 1
  /\ \E i, j \in 1..Len(clipboard_entries) :
       i < j /\ j < idx
       /\ clipboard_entries[i] = RecMeeting /\ clipboard_entries[j] = RecUrl

\* C7 as claimed: each process_clipboard_entry call appends exactly one
\* entry to the suggestion log, for every classification outcome.
C7_EveryCallLogsOne ==
  pc = "add" => Len(LogEntries(metadata)) = logLenAtCall + 1

\* C7 as amended: a call whose classification is not none appends exactly
\* one entry, the Suggestion of that record, and a call classified none
\* leaves the log as it was.
C7_ClassifiedCallLogsOne ==
  pc = "add" =>
    IF CurClass.intent = "none"
    THEN Len(LogEntries(metadata)) = logLenAtCall
    ELSE /\ Len(LogEntries(metadata)) = logLenAtCall + 1
         /\ metadata.entries[Len(metadata.entries)] =
              Suggestion(CurEntry, CurClass, auto_execute)

\* C7 witness: a classified record was saved to a log that held an entry.
C7_Witness ==
  pc = "add" /\ CurClass.intent # "none" /\ logLenAtCall >= 1

\* Suggestions lost at a stop: the persisted ones missing from the log, and
\* the one of the record in flight
LostSuggestions ==
  Cardinality({s \in everSaved :
                 \A j \in 1..Len(LogEntries(metadata)) :
                    LogEntries(metadata)[j] # s})
  + (IF stoppedAt \in {"execute", "save", "write"} THEN 1 ELSE 0)

\* C8: when the process stops while a record is processed, at most one
\* Suggestion is lost, and after the restart every id with a persisted
\* Suggestion is in the processed-id set, so it is not processed again.
C8_StopLosesAtMostOne ==
  /\ pc = "killed" => LostSuggestions <= 1
  /\ pc = "poll" => \A s \in everSaved : s.clipboard_id \in processed_ids

\* C9: the poll loop is never terminated by an interrupt with a record
\* half-processed: every dispatched action has its Suggestion in the log,
\* and every processed id is in the processed-id set.
C9_InterruptCompletesRecord ==
  pc = "interrupted" =>
    /\ \A k \in 1..Len(dispatches) :
         \E j \in 1..Len(LogEntries(metadata)) :
            LogEntries(metadata)[j].clipboard_id = dispatches[k].id
    /\ \A i \in Ids : invocations[i] > 0 => i \in processed_ids

DispatchesOf(i) == {k \in 1..Len(dispatches) : dispatches[k].id = i}

\* C10: in auto-execute mode the first suggested action of a classified
\* record is dispatched exactly once, before the record's Suggestion is
\* written, and no action is dispatched a second time, also after a failure.
C10_DispatchOnceBeforePersist ==
  auto_execute =>
    /\ \A i \in Ids : Cardinality(DispatchesOf(i)) <= 1
    /\ pc = "execute" =>
         /\ DispatchesOf(CurEntry.id) = {}
         /\ Len(LogEntries(metadata)) = logLenAtCall
    /\ (pc \in {"save", "write", "add"} /\ CurClass.intent # "none") =>
         \E k \in DispatchesOf(CurEntry.id) :
            dispatches[k].action = CurClass.suggested_actions[1]

\* C10 witness: a dispatch failed, its record was saved and a later poll
\* cycle over the same history has gone past it.
C10_Witness ==
  /\ auto_execute
  /\ pc = "poll"
  /\ \E k \in 1..Len(dispatches) :
       /\ ~dispatches[k].ok
       /\ dispatches[k].id \in processed_ids
       /\ \E j \in 1..Len(LogEntries(metadata)) :
            LogEntries(metadata)[j].clipboard_id = dispatches[k].id
  /\ \E i \in Ids : invocations[i] = 1 /\ i \in processed_ids
  /\ clipboard_entries # << >>

\* C11: a Suggestion saved while auto-execute mode is on carries action_taken
\* auto_executed, whether the executor returned true or false; one saved while
\* the mode is off carries suggested, and in that mode nothing is dispatched.
C11_ActionTakenByMode ==
  /\ (pc = "add" /\ CurClass.intent # "none") =>
       metadata.entries[Len(metadata.entries)].action_taken =
         IF auto_execute THEN "auto_executed" ELSE "suggested"
  /\ ~auto_execute => dispatches = << >>

\* C11 witness: in auto-execute mode a record whose dispatch failed has just
\* been saved, to a log that holds a Suggestion saved while the mode was off.
C11_Witness ==
  /\ pc = "add"
  /\ auto_execute
  /\ CurClass.intent # "none"
  /\ metadata.entries[Len(metadata.entries)].action_taken = "auto_executed"
  /\ \E k \in DispatchesOf(CurEntry.id) : ~dispatches[k].ok
  /\ \E j \in 1..Len(metadata.entries) :
       metadata.entries[j].action_taken = "suggested"

\* the earlier checks of the same fingerprint that recorded it
RecordingsBefore(k) ==
  {j \in 1..(k - 1) : checks[j].hash = checks[k].hash /\ ~checks[j].result}

\* when the fingerprint of check k was last recorded before that check
LastRecorded(k) ==
  checks[CHOOSE j \in RecordingsBefore(k) :
            \A i \in RecordingsBefore(k) : i <= j].at

\* C12: a check returns false when its fingerprint was never recorded, true
\* when it was last recorded less than the dedup window before the check, and
\* false again when the window has elapsed since it was recorded.
C12_DedupWindow ==
  \A k \in 1..Len(checks) :
     checks[k].result =
       (/\ RecordingsBefore(k) # {}
        /\ checks[k].at - LastRecorded(k) < DEDUP_WINDOW)

\* C12 witness: one fingerprint checked three times: recorded, found within
\* the window, and not found exactly when the window has elapsed.
C12_Witness ==
  \E i, j, k \in 1..Len(checks) :
     /\ i < j /\ j < k
     /\ checks[i].hash = checks[j].hash /\ checks[j].hash = checks[k].hash
     /\ ~checks[i].result /\ checks[j].result /\ ~checks[k].result
     /\ checks[j].at > checks[i].at
     /\ checks[k].at = checks[i].at + DEDUP_WINDOW

\* entries recorded more than the dedup window ago
Expired == {h \in DOMAIN recent_captures :
              clock - recent_captures[h] > DEDUP_WINDOW}

\* C13 as claimed: after every _is_duplicate call, whatever it returned, the
\* table holds no entry older than the dedup window.
C13_SweptOnEveryCheck ==
  [][(checks' # checks) => Expired' = {}]_vars

\* C13 as amended: a call that returns false leaves no entry older than the
\* dedup window in the table, and a call that returns true leaves the table
\* as it was.
C13_SweptOnMiss ==
  [][(checks' # checks) =>
       IF checks'[Len(checks')].result
       THEN recent_captures' = recent_captures
       ELSE Expired' = {}]_vars

\* C13 witness: a call that returned false has removed the expired entry of
\* another fingerprint.
C13_Witness ==
  /\ checks # << >>
  /\ ~checks[Len(checks)].result
  /\ \E j \in 1..Len(checks) :
       /\ checks[j].hash # checks[Len(checks)].hash
       /\ ~checks[j].result
       /\ checks[Len(checks)].at - checks[j].at > DEDUP_WINDOW
       /\ checks[j].hash \notin DOMAIN recent_captures

\* classify has run on a text that reaches the scoring
ScoredText == result # NotCalled /\ ctype = "text" /\ text.words # << >>

\* the highest of the six category scores of the classified text
TopScore ==
  CHOOSE m \in 0..10 :
     /\ \E k \in 1..6 : Scores(text)[k].confidence = m
     /\ \A k \in 1..6 : Scores(text)[k].confidence <= m

\* the categories that reach it, as positions in the fixed order
TopCategories == {k \in 1..6 : Scores(text)[k].confidence = TopScore}

\* C14: for text content classify returns the category with the highest
\* score, and of several categories sharing it exactly the first in the order
\* calendar, reminder, error, search, contact, file; when no category scores,
\* the result is none.
C14_HighestScoreFirstOnTie ==
  ScoredText =>
    IF TopScore >= 3
    THEN /\ \E k \in TopCategories :
              /\ result.intent = Categories[k]
              /\ \A j \in TopCategories : k <= j
         /\ result.confidence = TopScore
    ELSE result.intent = "none"

\* C14 witness: error and search share the highest score, calendar and
\* reminder score nothing, and error is returned.
C14_Witness ==
  /\ ScoredText
  /\ TopCategories = {3, 4}
  /\ TopScore = 5
  /\ result.intent = "error"

\* C15: the confidence classify returns lies between 0 and 1, and a
\* confidence of 0 comes only with intent none and an empty action list.
C15_ConfidenceRange ==
  result # NotCalled =>
    /\ result.confidence \in 0..10
    /\ result.confidence = 0 =>
         (result.intent = "none" /\ result.suggested_actions = << >>)

\* C15 witness: an email and a phone number sum to 1.2 and the confidence
\* returned is 1.0.
C15_Witness ==
  /\ ScoredText
  /\ AnyWord(text, EmailWords) /\ AnyWord(text, PhoneWords)
  /\ result.intent = "contact"
  /\ result.confidence = 10

\* the sub-signals of each category that a text matches, by the name of the
\* pattern (action_verb and question_mark are the two tests without one)
Signals(c) ==
  [k \in 1..6 |->
     CASE k = 1 ->
            {s \in {"meeting", "time", "date_relative", "date_absolute"} :
               \/ s = "meeting" /\ AnyLower(c, MeetingWords)
               \/ s = "time" /\ AnyLower(c, TimeWords)
               \/ s = "date_relative" /\ AnyLower(c, DateRelativeWords)
               \/ s = "date_absolute" /\ AnyLower(c, DateAbsoluteWords)}
       [] k = 2 ->
            {s \in {"todo_keywords", "priority", "action_verb"} :
               \/ s = "todo_keywords" /\ AnyLower(c, TodoWords)
               \/ s = "priority" /\ AnyLower(c, PriorityWords)
               \/ s = "action_verb" /\ Len(Split(c)) < 10
                                    /\ Lower(Split(c)[1]) \in ActionVerbs}
       [] k = 3 ->
            {s \in {"error_keywords", "stack_trace", "languages"} :
               \/ s = "error_keywords" /\ AnyLower(c, ErrorKeywordWords)
               \/ s = "stack_trace" /\ AnyLower(c, StackTraceWords)
               \/ s = "languages" /\ AnyLower(c, LanguageWords)}
       [] k = 4 ->
            {s \in {"question", "definition", "question_mark"} :
               \/ s = "question" /\ AnyLower(c, QuestionWords)
               \/ s = "definition" /\ AnyLower(c, DefinitionWords)
               \/ s = "question_mark"
                     /\ Split(c)[Len(Split(c))] \in QuestionMarkWords}
       [] k = 5 ->
            {s \in {"email", "phone"} :
               \/ s = "email" /\ AnyWord(c, EmailWords)
               \/ s = "phone" /\ AnyWord(c, PhoneWords)}
       [] k = 6 ->
            {s \in {"windows_path", "unix_path"} :
               \/ s = "windows_path" /\ AnyWord(c, WinPathWords)
               \/ s = "unix_path" /\ AnyWord(c, UnixPathWords)}]

FloorSignalWeight ==
  [s \in {"meeting", "todo_keywords", "stack_trace", "question", "definition",
          "email", "phone", "windows_path", "unix_path"} |->
     CASE s = "meeting" -> 4
       [] s \in {"todo_keywords", "stack_trace", "definition"} -> 5
       [] s = "question" -> 4
       [] s \in {"email", "phone"} -> 6
       [] s \in {"windows_path", "unix_path"} -> 7]

TypedContent ==
  result # NotCalled /\ ctype \in {"url", "file", "image"} /\ text.words # << >>

\* the fixed action list of each specific content type
TypeActions ==
  [t \in {"url", "file", "image"} |->
     CASE t = "url" -> <<"open_in_browser">>
       [] t = "file" -> <<"open_file", "show_in_folder">>
       [] t = "image" -> <<"extract_text", "search_image">>]

\* C17 as claimed: non-blank content of type url, file or image gets the
\* type's fixed action list and the maximal confidence 1.0, whatever the text.
C17_TypedMaxConfidence ==
  TypedContent =>
    /\ result.confidence = 10
    /\ result.suggested_actions = TypeActions[ctype]

\* C17 as amended: non-blank content of type url, file or image bypasses the
\* scoring and gets the type's fixed intent and action list, with confidence
\* 1.0 for url and file and 0.7 for image, whatever the text.
C17_TypedFixedResponse ==
  TypedContent =>
    /\ result.intent = (IF ctype = "url" THEN "open_url" ELSE ctype)
    /\ result.confidence = (IF ctype = "image" THEN 7 ELSE 10)
    /\ result.suggested_actions = TypeActions[ctype]

\* C17 witness: a text that scores 1.0 as contact is classified open_url
\* because its type is url.
C17_Witness ==
  /\ TypedContent
  /\ ctype = "url"
  /\ Scores(text)[5].confidence = 10
  /\ result.intent = "open_url"

\* C18: empty or whitespace-only content is classified none with confidence
\* 0 and no actions, for every content type.
C18_BlankIsNone ==
  (result # NotCalled /\ text.words = << >>) =>
    /\ result.intent = "none"
    /\ result.confidence = 0
    /\ result.suggested_actions = << >>

\* C18 witness: whitespace-only content of type image was classified none.
C18_Witness ==
  /\ result # NotCalled
  /\ text = Content(TRUE, << >>)
  /\ ctype = "image"
  /\ result.intent = "none"

\* C19 as claimed: the action list depends on the winning category alone: a
\* classified text and any one-word text with the same winning intent have
\* the same action sequence.
C19_ActionsByCategoryOnly ==
  (ScoredText /\ result.intent # "none") =>
    \A w \in KVocabulary :
       LET other == classify(Content(FALSE, <<w>>), "text")
       IN other.intent = result.intent =>
            other.suggested_actions = result.suggested_actions

\* the static action list of each category; contact's is built per text
CategoryActions(intent, c) ==
  CASE intent = "calendar" -> <<"create_calendar_event", "set_reminder">>
    [] intent = "reminder" -> <<"create_reminder", "add_to_todo_list">>
    [] intent = "error" ->
         <<"search_stackoverflow", "search_google", "search_github">>
    [] intent = "search" -> <<"search_google", "search_wikipedia">>
    [] intent = "file" -> <<"open_file", "open_file_location">>
    [] intent = "contact" ->
         <<"save_contact">>
         \o (IF "email" \in Signals(c)[5] THEN <<"send_email">> ELSE << >>)
         \o (IF "phone" \in Signals(c)[5] THEN <<"call_phone">> ELSE << >>)

\* C19 as amended: for every winning category but contact the action list is
\* the category's static list, whichever sub-signals matched; for contact it
\* is save_contact, then send_email if an email matched, then call_phone if a
\* phone number matched.
C19_ActionsByCategoryAndContact ==
  (ScoredText /\ result.intent # "none") =>
    result.suggested_actions = CategoryActions(result.intent, text)

\* C19 witness: a text with a phone number and no email was classified
\* contact, with the list save_contact, call_phone.
C19_Witness ==
  /\ ScoredText
  /\ Signals(text)[5] = {"phone"}
  /\ result.intent = "contact"
  /\ result.suggested_actions = <<"save_contact", "call_phone">>

\* C20: a poll cycle that finds the content-history file missing or holding
\* invalid JSON loads an empty list, processes no record, leaves the
\* processed-id set and the suggestion log as they were, and the loop goes on
\* to the sleep and the next cycle.
C20_BadHistoryIsEmpty ==
  /\ [][(pc = "poll" /\ pc' = "for" /\ history_state # "ok") =>
          /\ clipboard_entries' = << >>
          /\ processed_ids' = processed_ids
          /\ metadata' = metadata]_vars
  /\ [][(pc = "for" /\ clipboard_entries = << >>
           /\ pc' \notin {"for", "interrupted", "killed"}) =>
          /\ pc' = "poll"
          /\ processed_ids' = processed_ids
          /\ metadata' = metadata
          /\ invocations' = invocations]_vars

\* C20 witness: the loop has processed and logged records in earlier cycles,
\* and is now in the for loop of a cycle that loaded the empty list from a
\* file that holds records but is invalid.
C20_Witness ==
  /\ pc = "for"
  /\ history_state = "invalid"
  /\ history # << >>
  /\ clipboard_entries = << >>
  /\ processed_ids # {}
  /\ Len(LogEntries(metadata)) >= 1

\* the signature rules in the order of the source: whether each matches the
\* content, and the label it gives
SignatureRules(c) ==
  <<[hit |-> AnyWord(c, PyWords),
     label |-> IF HasImportOrDef(c) THEN "python_code" ELSE "python_filename"],
    [hit |-> IsPythonCommand(c), label |-> "python_command"],
    [hit |-> AnyWord(c, JsonWords), label |-> "json_file"],
    [hit |-> IsPipInstall(c), label |-> "pip_install"],
    [hit |-> AnyLower(c, SigErrorWords), label |-> "error_message"],
    [hit |-> AnyWord(c, WinPathWords), label |-> "file_path"],
    [hit |-> AnyWord(c, UrlWords), label |-> "url"]>>

MatchingRules(c) == {k \in 1..7 : SignatureRules(c)[k].hit}

\* C22: the signature of a content that matches a rule is the label of the
\* first rule that matches, in the order .py cue, python command, .json, pip
\* install, error cue, Windows path, URL.
C22_FirstMatchingRule ==
  (sig_out # << >> /\ MatchingRules(text) # {}) =>
    \E k \in MatchingRules(text) :
       /\ \A j \in MatchingRules(text) : k <= j
       /\ sig_out[1] = SignatureRules(text)[k].label

\* C22 witness: a content with a pip-install cue, an error cue and a URL got
\* the signature pip_install.
C22_Witness ==
  /\ sig_out = <<"pip_install">>
  /\ {4, 5, 7} \subseteq MatchingRules(text)

\* lower-cased tokens
LowerAll(ws) == [i \in 1..Len(ws) |-> Lower(ws[i])]

\* C23: a content that matches no rule gets the first three tokens,
\* lower-cased and joined by underscores, and blank content (empty or
\* whitespace-only) gets "empty".
C23_FallbackLowerCased ==
  (sig_out # << >> /\ MatchingRules(text) = {}) =>
    sig_out[1] =
      IF text.words = << >> THEN "empty"
      ELSE Join(LowerAll(SubSeq(text.words, 1, Min(3, Len(text.words)))), "_")

\* C24: every follow-up that the pattern map holds with a count of at least
\* 2 for the record's signature appears among the learned suggestions
\* returned for the record.
C24_LearnedFollowUpsEmitted ==
  pentries # << >> =>
    \A k \in 1..Len(related_actions) :
       \E j \in 1..Len(suggestions) :
          suggestions[j] = related_actions[k].follow

\* C25: for a record whose classification is not none the personalized
\* concierge emits every learned suggestion first, in the order returned,
\* then the first 3 rule-based actions at most, in the classifier's order,
\* each as its label or, without a label, as its raw identifier.
C25_LearnedThenRules ==
  [][(pcalls' = pcalls + 1) =>
       LET entry == pentries[pidx]
           classification ==
             classify(entry.content_preview, entry.content_type)
           actions == classification.suggested_actions
           learned == {i \in 1..Len(emitted') :
                         emitted'[i].provenance = "learned"}
           rules == {i \in 1..Len(emitted') : emitted'[i].provenance = "rule"}
           n == Cardinality(learned)
       IN classification.intent # "none" =>
            /\ learned \cup rules = 1..Len(emitted')
            /\ \A i \in learned : \A j \in rules : i < j
            /\ [i \in 1..n |-> emitted'[i].text] = suggestions'
            /\ Cardinality(rules) = Min(3, Len(actions))
            /\ \A i \in 1..Cardinality(rules) :
                 emitted'[n + i].text \in
                   {"Add to Calendar", "Set Reminder", "Search Stack Overflow",
                    "Google Search", "Open File", actions[i]}
            /\ \A i \in 1..Cardinality(rules) :
                 (emitted'[n + i].text = actions[i]) =
                   (actions[i] \notin {"create_calendar_event", "set_reminder",
                                       "search_stackoverflow", "search_google",
                                       "open_file"})]_vars

\* C25 witness: an error record got two learned lines, then Search Stack
\* Overflow, Google Search and the unlabelled search_github.
C25_Witness ==
  /\ Len(emitted) = 5
  /\ emitted[1].provenance = "learned" /\ emitted[2].provenance = "learned"
  /\ emitted[3] = [provenance |-> "rule", text |-> "Search Stack Overflow"]
  /\ emitted[4] = [provenance |-> "rule", text |-> "Google Search"]
  /\ emitted[5] = [provenance |-> "rule", text |-> "search_github"]

\* C26: a text with a priority keyword, no todo keyword, an action verb that
\* is not its first word, a meeting keyword and a relative date is classified
\* reminder.
C26_PriorityTodoIsReminder ==
  (/\ ScoredText
   /\ Signals(text)[2] = {"priority"}
   /\ \E i \in 2..Len(text.words) : Lower(text.words[i]) \in ActionVerbs
   /\ {"meeting", "date_relative"} \subseteq Signals(text)[1]) =>
    result.intent = "reminder"

\* the calls made so far that recorded fingerprint h
Recordings(h) ==
  {j \in 1..Len(checks) : checks[j].hash = h /\ ~checks[j].result}

\* C27: an _is_duplicate call that returns true leaves the dedup table as it
\* was, so the time held for its fingerprint is still the time of the last
\* call that returned false for it, however many calls returned true since.
C27_DuplicateLeavesTable ==
  [][(checks' # checks /\ checks'[Len(checks')].result) =>
       /\ recent_captures' = recent_captures
       /\ \E h \in Hashes :
            /\ h = checks'[Len(checks')].hash
            /\ Recordings(h) # {}
            /\ \E j \in Recordings(h) :
                 /\ \A i \in Recordings(h) : i <= j
                 /\ recent_captures'[h] = checks[j].at]_vars

\* C27 witness: a fingerprint recorded, found twice at two later times within
\* the window, and not found exactly one window after it was recorded.
C27_Witness ==
  /\ Len(checks) = 4
  /\ \A k \in 1..4 : checks[k].hash = checks[1].hash
  /\ ~checks[1].result /\ checks[2].result /\ checks[3].result
  /\ ~checks[4].result
  /\ checks[1].at < checks[2].at /\ checks[2].at < checks[3].at
  /\ checks[4].at = checks[1].at + DEDUP_WINDOW

\* C29: every action that classify returns, for any content and content
\* type, is a key of the executor's action_map, so execute_action never takes
\* its "Unknown action" branch for an action of a classification.
C29_ActionsHaveHandlers ==
  result # NotCalled =>
    \A i \in 1..Len(result.suggested_actions) :
       result.suggested_actions[i] \in action_map

\* C29 witness: classify has returned the three search actions of an error
\* text, search_github among them.
C29_Witness ==
  /\ ScoredText
  /\ result.intent = "error"
  /\ Len(result.suggested_actions) = 3
  /\ result.suggested_actions[3] = "search_github"

\* C30: a history record whose id is missing or empty is never passed to
\* process_clipboard_entry and its id is never added to the processed-id
\* set, in the first pass over the history and in every later one, by
\* ClipboardConcierge and by PersonalizedConcierge alike.
C30_NoIdNeverProcessed ==
  /\ invocations[""] = 0
  /\ "" \notin processed_ids
  /\ (pc \in {"process", "execute", "save", "write", "add"} =>
        CurEntry.id # "")
  /\ pinvocations[""] = 0
  /\ "" \notin processed_clipboard_ids

\* C30 witness: the for loop has gone past a record without id that the
\* loaded history holds, and processed the record that follows it.
C30_Witness ==
  /\ pc = "add"
  /\ idx > 1
  /\ clipboard_entries[idx - 1].id = ""

\* C28: the suggestion log never holds two Suggestions with the same
\* clipboard_id, over all poll cycles and restarts of the process and also
\* when the history holds two records with one id.
C28_OneSuggestionPerId ==
  \A i, j \in 1..Len(LogEntries(metadata)) :
     i # j => LogEntries(metadata)[i].clipboard_id #
              LogEntries(metadata)[j].clipboard_id

\* C28 witness: after a restart (the id of the logged Suggestion is in the
\* processed-id set without a call in this lifetime) the loop has gone
\* through a history that holds two records with that id, and the log holds
\* two Suggestions.
C28_Witness ==
  /\ pc = "for"
  /\ idx > Len(clipboard_entries)
  /\ \E m, n \in 1..Len(clipboard_entries) :
       /\ m # n
       /\ clipboard_entries[m].id = clipboard_entries[n].id
       /\ clipboard_entries[m].id \in processed_ids
       /\ invocations[clipboard_entries[m].id] = 0
  /\ Len(LogEntries(metadata)) = 2

\* record r is in the history file, which is readable
InHistory(r) ==
  history_state = "ok" /\ \E k \in 1..Len(history) : history[k] = r

====
